---- MODULE Spec2Model ----
(***************************************************************************)
(* Model of the resumable chunk-embed-index pipeline of                    *)
(* indexer/chunk_embed_index.py: process_and_upsert, its two retry loops,  *)
(* and the S3 checkpoint it loads at the start of a run and saves in the   *)
(* final flush.                                                            *)
(*                                                                         *)
(* A document is represented by the number of paragraph chunks the two     *)
(* chunking passes produce for it; a vector is the pair <<doc_idx, k>> of   *)
(* the document index and the ordinal of the paragraph chunk.               *)
(* The source fixes BATCH_SIZE = 200; the flush logic only compares the    *)
(* batch length with it, so the model checks the same logic with a small   *)
(* threshold (a bound of the model).                                       *)
(*                                                                         *)
(* chunk_text and get_embedding are modelled on their own (FnSpec): a text *)
(* is a sequence of characters, split at whitespace and joined with single *)
(* blanks as the source does, and the while loop of chunk_text is taken    *)
(* one iteration per step.  The manifest objects of a run are observed     *)
(* through the key log_upsert_manifest_to_s3 derives from the clock, which *)
(* has a resolution of one second.                                         *)
(***************************************************************************)
EXTENDS Integers, Sequences, FiniteSets, TLC

\* ---------------------------------------------------------------- bounds
MaxDocs == 2
MaxChunks == 2
MaxLimit == 1
MaxLiveLimit == 2
MaxCkpt == 3
BATCH_SIZE == 2
MaxTokens == 5
MaxWindow == 3
\* iterations of the chunk_text loop that are followed
MaxOut == 8
\* longest doc_id and chunk text of the chunk id computation, in characters
MaxIdLen == 2
\* records handed to process_graph_with_retries, and NEO4J_BATCH_SIZE
MaxGraphRecords == 4
GRAPH_BATCH_SIZE == 2

\* ------------------------------------------------------ program constants
MID_ATTEMPTS == 5
FINAL_ATTEMPTS == 5
EMBEDDING_DIMENSION == 1536
MAX_RETRIES == 3
MAX_EMBED_CHARS == 25000
DefaultSectionTokens == 512
DefaultParagraphTokens == 128
DefaultOverlap == 20

VARIABLES
    records,          \* kb_docs rows: per document, its number of paragraph chunks
    DRY_RUN_LIMIT,    \* module constant read from the environment of the run
    s3_checkpoint,    \* the checkpoint object: <<>> when absent, <<last_doc_idx>> otherwise
    pc,               \* position of the run
    start_idx, end_idx, doc_idx, para, batch, attempt,
    total_upserted, processed_docs,
    \* ---- observation of the current run
    ckpt_at_start,    \* s3_checkpoint when the run started
    produced,         \* vectors appended to a batch in this run
    upserted,         \* vectors that were part of an upsert call that succeeded
    flush_log,        \* per flush started in this run: [kind, size]
    upsert_calls,     \* upsert calls made by the current (or last) flush
    only_429,         \* every failed attempt of that flush was answered 429
    flush_result,     \* "none", "open", "ok", "dropped", "aborted", "exhausted"
    last_outcome,     \* outcome of the latest upsert call of the run
    backoff_on_error, \* a backoff sleep of this run followed a non-429 upsert failure
    save_calls,       \* executions of save_checkpoint in this run
    saved,            \* the values save_checkpoint stored in this run, in order
    step_failed,      \* some attempt of this run did not reach its break
    upsert_failed,    \* some upsert call of this run did not succeed
    first_doc, last_doc,
    run_docs,         \* the document indices processed by this run, in order
    manifest_invoked,     \* log_upsert_manifest_to_s3 was invoked for the current flush
    manifest_reinvoked,   \* ... and invoked again for the same flush
    manifest_last,        \* the vectors passed to its latest invocation
    manifest_recent,      \* a manifest was written and no sleep of a second or more followed
    manifest_overwritten, \* a manifest write of this run replaced an earlier manifest object
    \* ---- observation across runs
    processed_ever,   \* document indices processed by some run
    prev_ok, prev_last,
    \* ---- one call of chunk_text and the embedding of its chunks
    text,                     \* the argument: a sequence of characters
    level,                    \* "section" or "paragraph"
    CHUNK_SECTION_TOKENS,     \* module constants read from the environment
    CHUNK_PARAGRAPH_TOKENS,
    CHUNK_PARAGRAPH_OVERLAP,  \* the fraction, in hundredths
    tokens, chunk_i, chunks,  \* locals of chunk_text (chunk_i is its i)
    cpc,                      \* "idle", "loop", "returned"
    embedded,                 \* how many of the chunks went through get_embedding
    service,                  \* how the embedding service answered the latest call
    embedding,                \* what the latest get_embedding call returned
    epc,                      \* "none", "returned", "raised": how that call ended
    doc_paras,                \* <<>>, or <<the paragraph chunks of the two passes over text>>
    \* ---- other parts of the program, each exercised by its own specification
    inst,                     \* concurrent instances of process_and_upsert
    ckpt_high,                \* the highest last_doc_idx stored so far, -1 when none
    idcall,                   \* two (doc_id, chunk) pairs and the chunk ids computed for them
    graph                     \* the frame of process_graph_with_retries

runVars == <<start_idx, end_idx, doc_idx, para, batch, attempt, total_upserted, processed_docs>>
flushObs == <<upsert_calls, only_429, flush_result, last_outcome, backoff_on_error>>
runObs == <<ckpt_at_start, produced, upserted, flush_log, save_calls, saved, step_failed, upsert_failed, first_doc, last_doc>>
crossObs == <<processed_ever, prev_ok, prev_last>>
manifestObs == <<manifest_invoked, manifest_reinvoked, manifest_last, manifest_recent,
                 manifest_overwritten>>
pipeVars == <<records, DRY_RUN_LIMIT, s3_checkpoint, pc, runVars, flushObs, runObs, crossObs,
              run_docs, manifestObs>>
chunkVars == <<text, level, CHUNK_SECTION_TOKENS, CHUNK_PARAGRAPH_TOKENS, CHUNK_PARAGRAPH_OVERLAP,
               tokens, chunk_i, chunks, cpc>>
embedVars == <<embedded, service, embedding, epc>>
auxVars == <<inst, ckpt_high, idcall, graph>>
vars == <<pipeVars, chunkVars, embedVars, doc_paras, auxVars>>

\* ---------------------------------------------------------------- helpers
Range(s) == {s[i] : i \in 1..Len(s)}

DocLists == UNION {[1..n -> 0..MaxChunks] : n \in 0..MaxDocs}

\* kb_docs rows as the query returns them: the text column of a row may be NULL,
\* written -1 here, and chunking such a document raises
DocRows == UNION {[1..n -> -1..MaxChunks] : n \in 0..MaxDocs}

\* variant: the stored object is read under another key, so the default is returned
load_checkpoint_WrongKey(readOk) == 0

\* load_checkpoint: the stored last_doc_idx, 0 when the object is absent or unreadable
load_checkpoint(readOk) ==
    IF readOk /\ s3_checkpoint # <<>> THEN s3_checkpoint[1] ELSE 0

\* save_checkpoint: the object written for last_doc_idx
save_checkpoint(last_doc_idx) == <<last_doc_idx>>

\* variant: the window is one document longer
WindowEnd_Inclusive(start, limit, n) == IF limit > 0 THEN start + limit + 1 ELSE n

\* end_idx = start_idx + DRY_RUN_LIMIT if DRY_RUN_LIMIT > 0 else len(records)
WindowEnd(start, limit, n) == IF limit > 0 THEN start + limit ELSE n

\* variant: the threshold compared with > instead of >=
FlushDue_Strict(b) == Len(b) > BATCH_SIZE

\* if len(batch) >= BATCH_SIZE
FlushDue(b) == Len(b) >= BATCH_SIZE

\* variant: the status test matches the other failures instead of the 429
IsRateLimit_WrongStatus(outcome) == outcome = "err"

\* hasattr(e, 'status') and e.status == 429
IsRateLimit(outcome) == outcome = "rate"

\* ------------------------------------------------------------- chunk_text
Min(a, b) == IF a < b THEN a ELSE b

IsSpace(c) == c \in {" ", "\n", "\t"}

RECURSIVE SplitOnSpace(_, _, _)
\* str.split(" "): cut at every single blank, empty pieces kept
SplitOnSpace(rest, cur, acc) ==
    IF rest = <<>> THEN Append(acc, cur)
    ELSE IF Head(rest) = " " THEN SplitOnSpace(Tail(rest), <<>>, Append(acc, cur))
    ELSE SplitOnSpace(Tail(rest), Append(cur, Head(rest)), acc)

RECURSIVE Split(_, _, _)
\* str.split(): cut at runs of whitespace, no empty piece
Split(rest, cur, acc) ==
    IF rest = <<>> THEN (IF cur = <<>> THEN acc ELSE Append(acc, cur))
    ELSE IF IsSpace(Head(rest))
         THEN Split(Tail(rest), <<>>, IF cur = <<>> THEN acc ELSE Append(acc, cur))
         ELSE Split(Tail(rest), Append(cur, Head(rest)), acc)

\* variant: text.split(" ")
simple_tokenize_SplitOnSpace(t) == SplitOnSpace(t, <<>>, <<>>)

\* return text.split()
simple_tokenize(t) == Split(t, <<>>, <<>>)

RECURSIVE Join(_)
\* " ".join(chunk)
Join(toks) ==
    IF toks = <<>> THEN <<>>
    ELSE IF Len(toks) = 1 THEN Head(toks)
    ELSE Head(toks) \o <<" ">> \o Join(Tail(toks))

\* chunk_size of the level
ChunkSize(lvl, S, P) == IF lvl = "section" THEN S ELSE P

\* overlap of the level: 0, or int(CHUNK_PARAGRAPH_TOKENS * CHUNK_PARAGRAPH_OVERLAP)
Overlap(lvl, P, f) == IF lvl = "section" THEN 0 ELSE (P * f) \div 100

\* variant: tokens[i:i+chunk_size-1]
Window_OneShort(toks, start, chunk_size) ==
    SubSeq(toks, start + 1, Min(start + chunk_size - 1, Len(toks)))

\* chunk = tokens[i:i+chunk_size]
Window(toks, start, chunk_size) ==
    SubSeq(toks, start + 1, Min(start + chunk_size, Len(toks)))

\* variant: the overlap is ignored
NextStart_NoOverlap(start, chunk_size, overlap) == start + chunk_size

\* if overlap: i += chunk_size - overlap else: i += chunk_size
NextStart(start, chunk_size, overlap) ==
    IF overlap # 0 THEN start + chunk_size - overlap ELSE start + chunk_size

RECURSIVE chunk_windows(_, _, _, _)
\* the token windows the while loop of chunk_text goes through, from i = start
chunk_windows(toks, start, chunk_size, overlap) ==
    IF start < Len(toks) /\ Window(toks, start, chunk_size) # <<>>
    THEN <<Window(toks, start, chunk_size)>> \o
         chunk_windows(toks, NextStart(start, chunk_size, overlap), chunk_size, overlap)
    ELSE <<>>

\* the k-th word of an input text: k letters
Word(k) == [j \in 1..k |-> "x"]

RECURSIVE Render(_, _, _)
\* the words k..n with sep between them
Render(k, n, sep) ==
    IF k > n THEN <<>>
    ELSE Word(k) \o (IF k < n THEN sep ELSE <<>>) \o Render(k + 1, n, sep)

\* input texts: up to MaxTokens words, separated by one blank, or by a blank and
\* a newline with whitespace before the first and after the last word
Texts == {Render(1, n, <<" ">>) : n \in 0..MaxTokens} \cup
         {<<" ">> \o Render(1, n, <<" ", "\n">>) \o <<"\t">> : n \in 0..MaxTokens}

\* overlap fractions, in hundredths
Fractions == {0, 20, 50, 75}

\* ------------------------------------------------------ manifest logging
\* log_upsert_manifest_to_s3(batch) is invoked by the current flush
InvokeManifest ==
    /\ manifest_invoked' = TRUE
    /\ manifest_reinvoked' = (manifest_reinvoked \/ manifest_invoked)
    /\ manifest_last' = Range(batch)

\* s3.put_object(Key = prefix + utcnow formatted to the second): a write to the
\* key of an existing manifest replaces that object
PutManifest(overwritten, same_key) == overwritten \/ same_key

\* log_upsert_manifest_to_s3 returns.  same_second: utcnow, formatted to the
\* second, gives the timestamp of the latest manifest again, which cannot be
\* when a sleep of a second or more lies between the two writes
WriteManifest(same_second) ==
    /\ InvokeManifest
    /\ manifest_overwritten' = PutManifest(manifest_overwritten, same_second /\ manifest_recent)

\* variant: the mid-stream flush saves a checkpoint after its upsert
MidFlushCheckpoint_Saves == save_checkpoint(doc_idx)

\* the mid-stream flush (lines 199-217) has no save_checkpoint call
MidFlushCheckpoint == s3_checkpoint

\* ------------------------------------------------------------------- Init
\* no run of the pipeline has started
PipeIdle ==
    /\ s3_checkpoint = <<>>
    /\ pc = "idle"
    /\ start_idx = 0 /\ end_idx = 0 /\ doc_idx = 0 /\ para = 0
    /\ batch = <<>> /\ attempt = 0 /\ total_upserted = 0 /\ processed_docs = 0
    /\ ckpt_at_start = <<>> /\ produced = {} /\ upserted = {} /\ flush_log = <<>>
    /\ upsert_calls = 0 /\ only_429 = TRUE /\ flush_result = "none"
    /\ last_outcome = "none" /\ backoff_on_error = FALSE
    /\ save_calls = 0 /\ saved = <<>> /\ step_failed = FALSE /\ upsert_failed = FALSE
    /\ first_doc = -1 /\ last_doc = -1
    /\ run_docs = <<>>
    /\ manifest_invoked = FALSE /\ manifest_reinvoked = FALSE /\ manifest_last = {}
    /\ manifest_recent = FALSE /\ manifest_overwritten = FALSE
    /\ processed_ever = {} /\ prev_ok = FALSE /\ prev_last = -1

\* no call of chunk_text or get_embedding is in progress
FnIdle ==
    /\ text = <<>> /\ level = "section"
    /\ CHUNK_SECTION_TOKENS = DefaultSectionTokens
    /\ CHUNK_PARAGRAPH_TOKENS = DefaultParagraphTokens
    /\ CHUNK_PARAGRAPH_OVERLAP = DefaultOverlap
    /\ tokens = <<>> /\ chunk_i = 0 /\ chunks = <<>> /\ cpc = "idle"
    /\ embedded = 0 /\ service = "none" /\ embedding = <<>> /\ epc = "none"
    /\ doc_paras = <<>>

\* the instances of the concurrent specification
Instances == {1, 2}

\* no instance of the concurrent specification has started
ConcIdle ==
    /\ inst = [p \in Instances |-> [ipc |-> "idle", start_idx |-> 0, end_idx |-> 0,
                                      limit |-> 0, stale |-> FALSE]]
    /\ ckpt_high = -1

\* no chunk id is being computed
IdIdle == idcall = [a |-> <<>>, b |-> <<>>, ids |-> <<>>]

\* no graph load runs
GraphIdle ==
    graph = [gpc |-> "idle", total |-> 0, i |-> 0, attempt |-> 0, last |-> "none",
             calls |-> <<>>, outcome |-> <<>>]

AuxIdle == ConcIdle /\ IdIdle /\ GraphIdle

Init ==
    /\ records \in DocRows
    /\ DRY_RUN_LIMIT = 0
    /\ PipeIdle
    /\ FnIdle
    /\ AuxIdle

\* ------------------------------------------------------------ run startup
Resting == pc \in {"idle", "done", "error"}

\* the run ended cleanly, no attempt of it failed, and it saved its checkpoint
RunSucceeded == pc = "done" /\ ~step_failed /\ saved # <<>>

ResetObs ==
    /\ ckpt_at_start' = s3_checkpoint
    /\ produced' = {} /\ upserted' = {} /\ flush_log' = <<>>
    /\ upsert_calls' = 0 /\ only_429' = TRUE /\ flush_result' = "none"
    /\ last_outcome' = "none" /\ backoff_on_error' = FALSE
    /\ save_calls' = 0 /\ saved' = <<>> /\ step_failed' = FALSE /\ upsert_failed' = FALSE
    /\ first_doc' = -1 /\ last_doc' = -1
    /\ run_docs' = <<>>
    /\ manifest_invoked' = FALSE /\ manifest_reinvoked' = FALSE /\ manifest_last' = {}
    /\ manifest_recent' = FALSE /\ manifest_overwritten' = FALSE
    /\ prev_ok' = RunSucceeded
    /\ prev_last' = last_doc
    /\ UNCHANGED processed_ever

\* process_and_upsert up to the document loop
StartRun(limit, readOk) ==
    /\ Resting
    /\ load_checkpoint(TRUE) + limit <= MaxCkpt
    /\ DRY_RUN_LIMIT' = limit
    /\ start_idx' = load_checkpoint(readOk)
    /\ end_idx' = WindowEnd(load_checkpoint(readOk), limit, Len(records))
    /\ doc_idx' = 0 /\ para' = 0
    /\ batch' = <<>> /\ attempt' = 0 /\ total_upserted' = 0 /\ processed_docs' = 0
    /\ pc' = "doc"
    /\ ResetObs
    /\ UNCHANGED <<chunkVars, embedVars, doc_paras, auxVars, records, s3_checkpoint>>

RunStart == \E limit \in 0..MaxLimit, readOk \in BOOLEAN : StartRun(limit, readOk)

\* psycopg2.connect, get_normalized_records, ensure_pinecone_index or
\* get_pinecone_index_stats raises before the checkpoint is read
LoadFail ==
    /\ Resting
    /\ \E limit \in 0..MaxLimit : DRY_RUN_LIMIT' = limit
    /\ start_idx' = 0 /\ end_idx' = 0 /\ doc_idx' = 0 /\ para' = 0
    /\ batch' = <<>> /\ attempt' = 0 /\ total_upserted' = 0 /\ processed_docs' = 0
    /\ pc' = "error"
    /\ ResetObs
    /\ UNCHANGED <<chunkVars, embedVars, doc_paras, auxVars, records, s3_checkpoint>>

\* --------------------------------------------------------- document loop
\* line 218 onwards: "if batch:" enters the final retry loop, otherwise the run ends
AfterLoop ==
    IF batch # <<>>
    THEN /\ pc' = "final"
         /\ attempt' = 0
         /\ flush_log' = Append(flush_log, [kind |-> "final", size |-> Len(batch)])
         /\ upsert_calls' = 0 /\ only_429' = TRUE /\ flush_result' = "open"
         /\ manifest_invoked' = FALSE /\ manifest_reinvoked' = FALSE
    ELSE /\ pc' = "done"
         /\ UNCHANGED <<attempt, flush_log, upsert_calls, only_429, flush_result,
                        manifest_invoked, manifest_reinvoked>>

\* for doc_idx, doc in enumerate(records): if doc_idx < start_idx: continue
SkipDoc ==
    /\ pc = "doc"
    /\ doc_idx < Len(records)
    /\ doc_idx < start_idx
    /\ doc_idx' = doc_idx + 1
    /\ UNCHANGED <<chunkVars, embedVars, doc_paras, auxVars, records, DRY_RUN_LIMIT, s3_checkpoint, pc, start_idx, end_idx, para, batch,
                   attempt, total_upserted, processed_docs, flushObs, runObs, crossObs,
                   run_docs, manifestObs>>

\* the loop is left: records exhausted, or DRY_RUN_LIMIT > 0 and doc_idx >= end_idx
ExitLoop ==
    /\ pc = "doc"
    /\ \/ doc_idx >= Len(records)
       \/ doc_idx >= start_idx /\ DRY_RUN_LIMIT > 0 /\ doc_idx >= end_idx
    /\ AfterLoop
    /\ UNCHANGED <<chunkVars, embedVars, doc_paras, auxVars, records, DRY_RUN_LIMIT, s3_checkpoint, start_idx, end_idx, doc_idx, para, batch,
                   total_upserted, processed_docs, last_outcome, backoff_on_error,
                   ckpt_at_start, produced, upserted, save_calls, saved, step_failed, upsert_failed,
                   first_doc, last_doc, crossObs,
                   run_docs, manifest_last, manifest_recent, manifest_overwritten>>

\* processed_docs += 1 and the document is chunked
BeginDoc ==
    /\ pc = "doc"
    /\ doc_idx < Len(records)
    /\ doc_idx >= start_idx
    /\ ~(DRY_RUN_LIMIT > 0 /\ doc_idx >= end_idx)
    /\ records[doc_idx + 1] >= 0
    /\ run_docs' = Append(run_docs, doc_idx)
    /\ processed_docs' = processed_docs + 1
    /\ para' = 1
    /\ pc' = "para"
    /\ first_doc' = IF first_doc = -1 THEN doc_idx ELSE first_doc
    /\ last_doc' = doc_idx
    /\ processed_ever' = processed_ever \cup {doc_idx}
    /\ UNCHANGED <<chunkVars, embedVars, doc_paras, auxVars, records, DRY_RUN_LIMIT, s3_checkpoint, start_idx, end_idx, doc_idx, batch,
                   attempt, total_upserted, flushObs, ckpt_at_start, produced, upserted,
                   flush_log, save_calls, saved, step_failed, upsert_failed, prev_ok, prev_last,
                   manifestObs>>

\* processed_docs += 1, then chunk_text(doc["text"], ...) raises on a row without
\* text: nothing catches it and the run aborts
DocMalformed ==
    /\ pc = "doc"
    /\ doc_idx < Len(records)
    /\ doc_idx >= start_idx
    /\ ~(DRY_RUN_LIMIT > 0 /\ doc_idx >= end_idx)
    /\ records[doc_idx + 1] < 0
    /\ processed_docs' = processed_docs + 1
    /\ pc' = "error"
    /\ UNCHANGED <<chunkVars, embedVars, doc_paras, auxVars, records, DRY_RUN_LIMIT, s3_checkpoint, start_idx, end_idx, doc_idx, para, batch,
                   attempt, total_upserted, flushObs, runObs, crossObs, run_docs, manifestObs>>

\* the paragraph chunks of the document are exhausted: next document
EndDoc ==
    /\ pc = "para"
    /\ para > records[doc_idx + 1]
    /\ doc_idx' = doc_idx + 1
    /\ para' = 0
    /\ pc' = "doc"
    /\ UNCHANGED <<chunkVars, embedVars, doc_paras, auxVars, records, DRY_RUN_LIMIT, s3_checkpoint, start_idx, end_idx, batch,
                   attempt, total_upserted, processed_docs, flushObs, runObs, crossObs,
                   run_docs, manifestObs>>

\* embed one paragraph chunk, append it to the batch, and decide whether to flush
AppendVector ==
    /\ pc = "para"
    /\ para <= records[doc_idx + 1]
    /\ LET v == <<doc_idx, para>>
           b == Append(batch, v)
       IN /\ batch' = b
          /\ produced' = produced \cup {v}
          /\ IF FlushDue(b)
             THEN /\ pc' = "mid"
                  /\ attempt' = 0
                  /\ flush_log' = Append(flush_log, [kind |-> "mid", size |-> Len(b)])
                  /\ upsert_calls' = 0 /\ only_429' = TRUE /\ flush_result' = "open"
                  /\ manifest_invoked' = FALSE /\ manifest_reinvoked' = FALSE
                  /\ UNCHANGED para
             ELSE /\ para' = para + 1
                  /\ UNCHANGED <<pc, attempt, flush_log, upsert_calls, only_429, flush_result,
                                 manifest_invoked, manifest_reinvoked>>
    /\ UNCHANGED <<chunkVars, embedVars, doc_paras, auxVars, records, DRY_RUN_LIMIT, s3_checkpoint, start_idx, end_idx, doc_idx,
                   total_upserted, processed_docs, last_outcome, backoff_on_error,
                   ckpt_at_start, upserted, save_calls, saved, step_failed, upsert_failed,
                   first_doc, last_doc, crossObs,
                   run_docs, manifest_last, manifest_recent, manifest_overwritten>>

\* ------------------------------------------------------- mid-stream flush
\* after the retry loop (left by break or by exhaustion): batch = []
MidLoopLeft(result) ==
    /\ batch' = <<>>
    /\ para' = para + 1
    /\ pc' = "para"
    /\ flush_result' = result
    /\ UNCHANGED attempt

\* upsert and manifest write succeed: total_upserted += len(batch); break
MidUpsertOk ==
    /\ pc = "mid"
    /\ \E same_second \in BOOLEAN : WriteManifest(same_second)
    /\ manifest_recent' = TRUE
    /\ s3_checkpoint' = MidFlushCheckpoint
    /\ upserted' = upserted \cup Range(batch)
    /\ total_upserted' = total_upserted + Len(batch)
    /\ upsert_calls' = upsert_calls + 1
    /\ last_outcome' = "ok"
    /\ MidLoopLeft("ok")
    /\ UNCHANGED <<chunkVars, embedVars, doc_paras, auxVars, records, DRY_RUN_LIMIT, start_idx, end_idx, doc_idx,
                   processed_docs, only_429, backoff_on_error,
                   ckpt_at_start, produced, flush_log, save_calls, saved, step_failed, upsert_failed,
                   first_doc, last_doc, crossObs,
                   run_docs>>

\* the upsert raises; a 429 sleeps and goes to the next attempt, anything else is re-raised
MidUpsertRaises(outcome) ==
    /\ pc = "mid"
    /\ upsert_calls' = upsert_calls + 1
    /\ last_outcome' = outcome
    /\ step_failed' = TRUE
    /\ upsert_failed' = TRUE
    /\ manifest_recent' = (manifest_recent /\ ~IsRateLimit(outcome))
    /\ IF IsRateLimit(outcome)
       THEN /\ backoff_on_error' = (backoff_on_error \/ outcome # "rate")
            /\ only_429' = (only_429 /\ outcome = "rate")
            /\ IF attempt + 1 < MID_ATTEMPTS
               THEN /\ attempt' = attempt + 1
                    /\ UNCHANGED <<pc, batch, para, flush_result>>
               ELSE MidLoopLeft("dropped")
       ELSE /\ pc' = "error"
            /\ flush_result' = "aborted"
            /\ only_429' = (only_429 /\ outcome = "rate")
            /\ UNCHANGED <<backoff_on_error, attempt, batch, para>>
    /\ UNCHANGED <<chunkVars, embedVars, doc_paras, auxVars, records, DRY_RUN_LIMIT, s3_checkpoint, start_idx, end_idx, doc_idx,
                   total_upserted, processed_docs,
                   ckpt_at_start, produced, upserted, flush_log, save_calls, saved,
                   first_doc, last_doc, crossObs,
                   run_docs, manifest_invoked, manifest_reinvoked, manifest_last,
                   manifest_overwritten>>

MidUpsertRateLimited == MidUpsertRaises("rate")

MidUpsertError == MidUpsertRaises("err")

\* the upsert succeeds and log_upsert_manifest_to_s3 raises: re-raised (no status 429)
MidManifestFail ==
    /\ pc = "mid"
    /\ InvokeManifest
    /\ upserted' = upserted \cup Range(batch)
    /\ upsert_calls' = upsert_calls + 1
    /\ last_outcome' = "ok"
    /\ step_failed' = TRUE
    /\ pc' = "error"
    /\ flush_result' = "aborted"
    /\ only_429' = FALSE
    /\ UNCHANGED <<chunkVars, embedVars, doc_paras, auxVars, records, DRY_RUN_LIMIT, s3_checkpoint, start_idx, end_idx, doc_idx, para, batch,
                   attempt, total_upserted, processed_docs, backoff_on_error,
                   ckpt_at_start, produced, flush_log, save_calls, saved, upsert_failed,
                   first_doc, last_doc, crossObs,
                   run_docs, manifest_recent, manifest_overwritten>>

\* ------------------------------------------------------------ final flush
\* variant: the handler of the final flush raises again
FinalCaught_Reraise(cause) ==
    /\ step_failed' = TRUE
    /\ manifest_recent' = FALSE
    /\ backoff_on_error' = (backoff_on_error \/ cause = "err")
    /\ only_429' = (only_429 /\ cause = "rate")
    /\ pc' = "error"
    /\ flush_result' = "aborted"
    /\ UNCHANGED attempt

\* except Exception: backoff_sleep(attempt); then the next attempt, or the loop ends
FinalCaught(cause) ==
    /\ step_failed' = TRUE
    /\ manifest_recent' = FALSE
    /\ backoff_on_error' = (backoff_on_error \/ cause = "err")
    /\ only_429' = (only_429 /\ cause = "rate")
    /\ IF attempt + 1 < FINAL_ATTEMPTS
       THEN /\ attempt' = attempt + 1
            /\ UNCHANGED <<pc, flush_result>>
       ELSE /\ pc' = "done"
            /\ flush_result' = "exhausted"
            /\ UNCHANGED attempt

\* every step of the attempt succeeds: save_checkpoint(end_idx-1); break
FinalUpsertOk ==
    /\ pc = "final"
    /\ \E same_second \in BOOLEAN : WriteManifest(same_second)
    /\ manifest_recent' = FALSE
    /\ upserted' = upserted \cup Range(batch)
    /\ total_upserted' = total_upserted + Len(batch)
    /\ upsert_calls' = upsert_calls + 1
    /\ last_outcome' = "ok"
    /\ s3_checkpoint' = save_checkpoint(end_idx - 1)
    /\ save_calls' = save_calls + 1
    /\ saved' = Append(saved, end_idx - 1)
    /\ pc' = "done"
    /\ flush_result' = "ok"
    /\ UNCHANGED <<chunkVars, embedVars, doc_paras, auxVars, records, DRY_RUN_LIMIT, start_idx, end_idx, doc_idx, para, batch, attempt,
                   processed_docs, only_429, backoff_on_error,
                   ckpt_at_start, produced, flush_log, step_failed, upsert_failed,
                   first_doc, last_doc, crossObs,
                   run_docs>>

\* the upsert raises (429 or not): caught, backoff, retried
FinalUpsertRaises(outcome) ==
    /\ pc = "final"
    /\ upsert_calls' = upsert_calls + 1
    /\ last_outcome' = outcome
    /\ upsert_failed' = TRUE
    /\ FinalCaught(outcome)
    /\ UNCHANGED <<chunkVars, embedVars, doc_paras, auxVars, records, DRY_RUN_LIMIT, s3_checkpoint, start_idx, end_idx, doc_idx, para, batch,
                   total_upserted, processed_docs,
                   ckpt_at_start, produced, upserted, flush_log, save_calls, saved,
                   first_doc, last_doc, crossObs,
                   run_docs, manifest_invoked, manifest_reinvoked, manifest_last,
                   manifest_overwritten>>

FinalUpsertRateLimited == FinalUpsertRaises("rate")

FinalUpsertError == FinalUpsertRaises("err")

\* the upsert succeeds and log_upsert_manifest_to_s3 raises: caught, backoff, retried
FinalManifestFail ==
    /\ pc = "final"
    /\ InvokeManifest
    /\ upserted' = upserted \cup Range(batch)
    /\ upsert_calls' = upsert_calls + 1
    /\ last_outcome' = "ok"
    /\ FinalCaught("manifest")
    /\ UNCHANGED <<chunkVars, embedVars, doc_paras, auxVars, records, DRY_RUN_LIMIT, s3_checkpoint, start_idx, end_idx, doc_idx, para, batch,
                   total_upserted, processed_docs,
                   ckpt_at_start, produced, flush_log, save_calls, saved, upsert_failed,
                   first_doc, last_doc, crossObs,
                   run_docs, manifest_overwritten>>

\* upsert and manifest succeed, get_pinecone_index_stats raises: caught, backoff, retried
FinalStatsFail ==
    /\ pc = "final"
    /\ \E same_second \in BOOLEAN : WriteManifest(same_second)
    /\ upserted' = upserted \cup Range(batch)
    /\ total_upserted' = total_upserted + Len(batch)
    /\ upsert_calls' = upsert_calls + 1
    /\ last_outcome' = "ok"
    /\ FinalCaught("stats")
    /\ UNCHANGED <<chunkVars, embedVars, doc_paras, auxVars, records, DRY_RUN_LIMIT, s3_checkpoint, start_idx, end_idx, doc_idx, para, batch,
                   processed_docs,
                   ckpt_at_start, produced, flush_log, save_calls, saved, upsert_failed,
                   first_doc, last_doc, crossObs,
                   run_docs>>

\* save_checkpoint raises (put_object fails, nothing is stored): caught, backoff, retried
FinalSaveFail ==
    /\ pc = "final"
    /\ \E same_second \in BOOLEAN : WriteManifest(same_second)
    /\ upserted' = upserted \cup Range(batch)
    /\ total_upserted' = total_upserted + Len(batch)
    /\ upsert_calls' = upsert_calls + 1
    /\ last_outcome' = "ok"
    /\ save_calls' = save_calls + 1
    /\ FinalCaught("save")
    /\ UNCHANGED <<chunkVars, embedVars, doc_paras, auxVars, records, DRY_RUN_LIMIT, s3_checkpoint, start_idx, end_idx, doc_idx, para, batch,
                   processed_docs,
                   ckpt_at_start, produced, flush_log, saved, upsert_failed,
                   first_doc, last_doc, crossObs,
                   run_docs>>

\* ------------------------------------------------------------------- Next
Next ==
    \/ RunStart
    \/ LoadFail
    \/ SkipDoc
    \/ ExitLoop
    \/ BeginDoc
    \/ DocMalformed
    \/ EndDoc
    \/ AppendVector
    \/ MidUpsertOk
    \/ MidUpsertRateLimited
    \/ MidUpsertError
    \/ MidManifestFail
    \/ FinalUpsertOk
    \/ FinalUpsertRateLimited
    \/ FinalUpsertError
    \/ FinalManifestFail
    \/ FinalStatsFail
    \/ FinalSaveFail

Spec == Init /\ [][Next]_vars

TypeOK ==
    /\ pc \in {"idle", "doc", "para", "mid", "final", "done", "error"}
    /\ Len(s3_checkpoint) <= 1
    /\ attempt \in 0..4

\* ------------------------------------- one call of chunk_text, then embedding
\* the inputs of one chunk_text call, with the overlap fraction drawn from fracs;
\* the pipeline stays idle
ChunkCall(fracs) ==
    /\ records = <<>>
    /\ DRY_RUN_LIMIT = 0
    /\ PipeIdle
    /\ AuxIdle
    /\ text \in Texts
    /\ level \in {"section", "paragraph"}
    /\ CHUNK_SECTION_TOKENS \in 1..MaxWindow
    /\ CHUNK_PARAGRAPH_TOKENS \in 1..MaxWindow
    /\ CHUNK_PARAGRAPH_OVERLAP \in fracs
    /\ tokens = simple_tokenize(text)
    /\ chunk_i = 0 /\ chunks = <<>> /\ cpc = "loop"
    /\ embedded = 0 /\ service = "none" /\ embedding = <<>> /\ epc = "none"
    /\ doc_paras = <<>>

InitFn == ChunkCall(Fractions)

chunk_size == ChunkSize(level, CHUNK_SECTION_TOKENS, CHUNK_PARAGRAPH_TOKENS)

overlap == Overlap(level, CHUNK_PARAGRAPH_TOKENS, CHUNK_PARAGRAPH_OVERLAP)

\* one iteration of "while i < len(tokens)"
ChunkIter ==
    /\ cpc = "loop"
    /\ chunk_i < Len(tokens)
    /\ Len(chunks) < MaxOut
    /\ IF Window(tokens, chunk_i, chunk_size) = <<>>
       THEN /\ cpc' = "returned"
            /\ UNCHANGED <<chunks, chunk_i>>
       ELSE /\ chunks' = Append(chunks, Join(Window(tokens, chunk_i, chunk_size)))
            /\ chunk_i' = NextStart(chunk_i, chunk_size, overlap)
            /\ UNCHANGED cpc
    /\ UNCHANGED <<pipeVars, embedVars, doc_paras, auxVars, text, level, CHUNK_SECTION_TOKENS,
                   CHUNK_PARAGRAPH_TOKENS, CHUNK_PARAGRAPH_OVERLAP, tokens>>

\* the loop condition fails: return chunks
ChunkReturn ==
    /\ cpc = "loop"
    /\ chunk_i >= Len(tokens)
    /\ cpc' = "returned"
    /\ UNCHANGED <<pipeVars, embedVars, doc_paras, auxVars, text, level, CHUNK_SECTION_TOKENS,
                   CHUNK_PARAGRAPH_TOKENS, CHUNK_PARAGRAPH_OVERLAP, tokens, chunk_i, chunks>>

\* chunk_text(text, level) as a whole: the chunks of all iterations
chunk_text(t, lvl) ==
    LET w == chunk_windows(simple_tokenize(t), 0,
                           ChunkSize(lvl, CHUNK_SECTION_TOKENS, CHUNK_PARAGRAPH_TOKENS),
                           Overlap(lvl, CHUNK_PARAGRAPH_TOKENS, CHUNK_PARAGRAPH_OVERLAP))
    IN  [k \in 1..Len(w) |-> Join(w[k])]

RECURSIVE Flatten(_)
Flatten(ss) == IF ss = <<>> THEN <<>> ELSE Head(ss) \o Flatten(Tail(ss))

\* the two passes of process_and_upsert over one document: for section in
\* chunk_text(text, "section"): for para in chunk_text(section, "paragraph");
\* doc_paras is the sequence of para values in the order the loops visit them
TwoPass ==
    /\ cpc = "returned"
    /\ level = "section"
    /\ doc_paras = <<>>
    /\ doc_paras' = <<Flatten([k \in 1..Len(chunks) |-> chunk_text(chunks[k], "paragraph")])>>
    /\ UNCHANGED <<pipeVars, chunkVars, embedVars, auxVars>>

\* ---------------------------------------------------------- get_embedding
\* how client.embeddings.create(...) and response.data[0].embedding can end:
\* a vector, a timeout or a quota error raised by the client, a response
\* without data[0].embedding
Outcomes == {"ok", "timeout", "quota", "malformed"}

\* a vector of the service: EMBEDDING_DIMENSION values
ServiceVector == [k \in 1..EMBEDDING_DIMENSION |-> 1]

\* if len(text) > 25000: text = text[:25000]
Truncate(t) == IF Len(t) > MAX_EMBED_CHARS THEN SubSeq(t, 1, MAX_EMBED_CHARS) ELSE t

\* variant: except openai.APIError
Caught_ApiErrorsOnly(outcome) == outcome \in {"timeout", "quota"}

\* except Exception
Caught(outcome) == outcome \in {"timeout", "quota", "malformed"}

\* get_embedding(chunk) with the service answering outcome
get_embedding(outcome) ==
    /\ cpc = "returned"
    /\ epc # "raised"
    /\ embedded < Len(chunks)
    /\ Truncate(chunks[embedded + 1]) # <<>>
    /\ embedded' = embedded + 1
    /\ service' = outcome
    /\ IF outcome = "ok"
       THEN /\ embedding' = ServiceVector
            /\ epc' = "returned"
       ELSE IF Caught(outcome)
            THEN /\ embedding' = [k \in 1..EMBEDDING_DIMENSION |-> 0]
                 /\ epc' = "returned"
            ELSE /\ embedding' = <<>>
                 /\ epc' = "raised"
    /\ UNCHANGED <<pipeVars, chunkVars, doc_paras, auxVars>>

Embed == \E outcome \in Outcomes : get_embedding(outcome)

NextFn ==
    \/ ChunkIter
    \/ ChunkReturn
    \/ TwoPass
    \/ Embed

FnSpec == InitFn /\ [][NextFn]_vars

\* ------------------------------- two instances against one checkpoint key
\* the documents an instance iterates: idx >= start_idx, and idx < end_idx
\* when its DRY_RUN_LIMIT is positive
ConcWindow(start, end, limit) ==
    {d \in 0..(Len(records) - 1) : d >= start /\ (limit > 0 => d < end)}

\* the vectors these documents produce
ConcVectors(start, end, limit) ==
    UNION {{<<d, k>> : k \in 1..records[d + 1]} : d \in ConcWindow(start, end, limit)}

\* what is left in batch after the loop: full batches were flushed on the way
FinalBatchSize(start, end, limit) == Cardinality(ConcVectors(start, end, limit)) % BATCH_SIZE

InitConc ==
    /\ records \in DocLists
    /\ DRY_RUN_LIMIT = 0
    /\ PipeIdle
    /\ FnIdle
    /\ ConcIdle
    /\ IdIdle
    /\ GraphIdle

\* instance p reads the checkpoint and fixes its window (lines 167-168)
ConcLoad(p, limit) ==
    /\ inst[p].ipc = "idle"
    /\ inst' = [inst EXCEPT ![p] =
                   [ipc |-> "loaded",
                    start_idx |-> load_checkpoint(TRUE),
                    end_idx |-> WindowEnd(load_checkpoint(TRUE), limit, Len(records)),
                    limit |-> limit,
                    stale |-> FALSE]]
    /\ UNCHANGED <<pipeVars, chunkVars, embedVars, doc_paras, ckpt_high, idcall, graph>>

\* instance p went through its window, its final batch is not empty and is
\* upserted: save_checkpoint(end_idx-1) (line 226); the other instance, if it
\* has read the checkpoint already, now holds an outdated start
ConcSave(p) ==
    /\ inst[p].ipc = "loaded"
    /\ FinalBatchSize(inst[p].start_idx, inst[p].end_idx, inst[p].limit) > 0
    /\ s3_checkpoint' = save_checkpoint(inst[p].end_idx - 1)
    /\ ckpt_high' = IF inst[p].end_idx - 1 > ckpt_high THEN inst[p].end_idx - 1 ELSE ckpt_high
    /\ inst' = [q \in Instances |->
                   IF q = p THEN [inst[q] EXCEPT !.ipc = "idle"]
                   ELSE IF inst[q].ipc = "loaded" THEN [inst[q] EXCEPT !.stale = TRUE]
                   ELSE inst[q]]
    /\ UNCHANGED <<records, DRY_RUN_LIMIT, pc, runVars, flushObs, runObs, crossObs,
                   run_docs, manifestObs, chunkVars, embedVars, doc_paras, idcall, graph>>

\* instance p went through its window and its final batch is empty (line 218):
\* the run ends without a save
ConcEnd(p) ==
    /\ inst[p].ipc = "loaded"
    /\ FinalBatchSize(inst[p].start_idx, inst[p].end_idx, inst[p].limit) = 0
    /\ inst' = [inst EXCEPT ![p].ipc = "idle"]
    /\ UNCHANGED <<pipeVars, chunkVars, embedVars, doc_paras, ckpt_high, idcall, graph>>

NextConc ==
    \/ \E p \in Instances, limit \in 0..MaxLiveLimit : ConcLoad(p, limit)
    \/ \E p \in Instances : ConcSave(p)
    \/ \E p \in Instances : ConcEnd(p)

ConcSpec == InitConc /\ [][NextConc]_vars

\* ---------------------------------------------- process_graph_with_retries
\* num_batches = (total + BATCH_SIZE - 1) // BATCH_SIZE
num_batches(total) == (total + GRAPH_BATCH_SIZE - 1) \div GRAPH_BATCH_SIZE

\* how process_graph_batch can end: it returns, or raises one of
\* ServiceUnavailable, SessionExpired, TransientError, or raises another Exception
BatchOutcomes == {"ok", "transient", "other"}

\* variant: only the transient errors are caught
GraphCatches_TransientOnly(kind) == kind = "transient"

\* except (ServiceUnavailable, SessionExpired, TransientError) / except Exception
GraphCatches(kind) == kind \in {"transient", "other"}

\* the call with its records; the rest of the program is idle
InitGraph ==
    /\ records = <<>>
    /\ DRY_RUN_LIMIT = 0
    /\ PipeIdle
    /\ FnIdle
    /\ ConcIdle
    /\ IdIdle
    /\ \E total \in 0..MaxGraphRecords :
          graph = [gpc |-> "for", total |-> total, i |-> 0, attempt |-> 0, last |-> "none",
                   calls |-> <<>>, outcome |-> <<>>]

GraphFrame == <<pipeVars, chunkVars, embedVars, doc_paras, inst, ckpt_high, idcall>>

\* for i in range(num_batches): the next batch with attempt = 0, or the return
GraphFor ==
    /\ graph.gpc = "for"
    /\ IF graph.i < num_batches(graph.total)
       THEN graph' = [graph EXCEPT !.gpc = "try", !.attempt = 0, !.last = "none",
                                    !.calls = Append(@, 0)]
       ELSE graph' = [graph EXCEPT !.gpc = "returned"]
    /\ UNCHANGED GraphFrame

\* break: the for loop goes on with the next batch
GraphBreak(g, result) ==
    [g EXCEPT !.gpc = "for", !.i = @ + 1, !.outcome = Append(@, result)]

\* one call of process_graph_batch(batch, driver, i + 1) inside
\* "while attempt <= MAX_RETRIES", ending as kind says
GraphAttempt(kind) ==
    /\ kind \in BatchOutcomes
    /\ graph.gpc = "try"
    /\ graph.attempt <= MAX_RETRIES
    /\ LET g == [graph EXCEPT !.calls[graph.i + 1] = @ + 1, !.last = kind]
       IN  graph' =
             IF kind = "ok" THEN GraphBreak(g, "ok")
             ELSE IF ~GraphCatches(kind) THEN [g EXCEPT !.gpc = "raised"]
             ELSE IF kind = "transient"
                  THEN IF g.attempt + 1 > MAX_RETRIES
                       THEN GraphBreak([g EXCEPT !.attempt = @ + 1], "skipped_transient")
                       ELSE [g EXCEPT !.attempt = @ + 1]
             ELSE GraphBreak(g, "skipped_other")
    /\ UNCHANGED GraphFrame

BatchOk == GraphAttempt("ok")

BatchTransient == GraphAttempt("transient")

BatchOther == GraphAttempt("other")

NextGraph ==
    \/ GraphFor
    \/ BatchOk
    \/ BatchTransient
    \/ BatchOther

GraphSpec == InitGraph /\ [][NextGraph]_vars

\* ------------------------------------------------------------- chunk ids
\* strings of the id computation: non-empty, over two characters
Alphabet == {"a", "b"}

Strs == UNION {[1..n -> Alphabet] : n \in 1..MaxIdLen}

\* hashlib.sha256(s.encode()).hexdigest(), taken as collision-free: the digest
\* stands for the string that was hashed and for nothing else
sha256(str) == <<"sha256", str>>

\* chunk_id = hashlib.sha256((doc["doc_id"] + para).encode()).hexdigest()
chunk_id(doc_id, chunk) == sha256(doc_id \o chunk)

\* two (doc_id, para) pairs reach line 184; everything else is idle
InitId ==
    /\ records = <<>>
    /\ DRY_RUN_LIMIT = 0
    /\ PipeIdle
    /\ FnIdle
    /\ ConcIdle
    /\ GraphIdle
    /\ idcall \in [a : [doc_id : Strs, para : Strs], b : [doc_id : Strs, para : Strs],
                    ids : {<<>>}]

\* line 184 for each of the two pairs
ComputeIds ==
    /\ idcall.ids = <<>>
    /\ idcall' = [idcall EXCEPT !.ids = <<chunk_id(idcall.a.doc_id, idcall.a.para),
                                           chunk_id(idcall.b.doc_id, idcall.b.para)>>]
    /\ UNCHANGED <<pipeVars, chunkVars, embedVars, doc_paras, inst, ckpt_high, graph>>

NextId == ComputeIds

IdSpec == InitId /\ [][NextId]_vars

\* --------------------- the chunk_text loop for every overlap fraction of 0..1
\* CHUNK_PARAGRAPH_OVERLAP is read with float(os.getenv(...)): 1.0 is accepted
AllFractions == Fractions \cup {100}

InitLoop == ChunkCall(AllFractions)

NextLoop ==
    \/ ChunkIter
    \/ ChunkReturn

LoopSpec == InitLoop /\ [][NextLoop]_vars

\* ----------------------------------------- repeated runs, no failing call
\* The same positive DRY_RUN_LIMIT in every run, an empty checkpoint store at
\* the start, and every external call succeeding.  Runs are launched again and
\* again and the sequential worker always takes its next step: WF on the step.
InitLive ==
    /\ records \in DocLists
    /\ DRY_RUN_LIMIT \in 1..MaxLiveLimit
    /\ PipeIdle
    /\ FnIdle
    /\ AuxIdle

RunStartSame == StartRun(DRY_RUN_LIMIT, TRUE)

NextLive ==
    \/ RunStartSame
    \/ SkipDoc
    \/ ExitLoop
    \/ BeginDoc
    \/ EndDoc
    \/ AppendVector
    \/ MidUpsertOk
    \/ FinalUpsertOk

LiveSpec == InitLive /\ [][NextLive]_vars /\ WF_vars(NextLive)

\* ------------------------------------------------- vocabulary of the claims
\* the documents of the window [start_idx, end_idx) that exist
WindowDocs == {d \in 0..(Len(records) - 1) :
                d >= start_idx /\ (DRY_RUN_LIMIT > 0 => d < end_idx)}

\* the vectors the window produces
WindowVectors == {<<d, k>> : d \in WindowDocs, k \in 1..MaxChunks} \cap
                 {v \in (0..MaxDocs) \X (1..MaxChunks) :
                    v[1] < Len(records) /\ v[2] <= records[v[1] + 1]}

RunEnded == pc \in {"done", "error"}

\* the value the checkpoint read of this run should have returned
CkptValueAtStart == IF ckpt_at_start # <<>> THEN ckpt_at_start[1] ELSE 0

MidFlushes == SelectSeq(flush_log, LAMBDA f : f.kind = "mid")
FinalFlushes == SelectSeq(flush_log, LAMBDA f : f.kind = "final")

RECURSIVE SumSizes(_)
SumSizes(log) == IF log = <<>> THEN 0 ELSE Head(log).size + SumSizes(Tail(log))

\* ------------------------------------------------------------------ claims

\* C1: the checkpoint is written only if every vector produced for the
\* documents of the window has been part of an upsert call that succeeded.
C1_CheckpointOnlyAfterAllUpserted ==
    saved # <<>> => WindowVectors \subseteq upserted

\* C2: a flush that was answered 429 on all 5 of its upsert attempts ends the
\* run with a propagated failure and leaves the stored checkpoint unchanged.
C2_FiveRateLimitsFailTheRun ==
    (upsert_calls = 5 /\ only_429 /\ last_outcome = "rate") =>
        (pc = "error" /\ s3_checkpoint = ckpt_at_start)

\* C3: a non-rate-limit failure of an upsert call, mid-stream or final,
\* aborts the flush at once (no further attempt, no backoff sleep) and fails
\* the run; backoff follows rate-limit answers only.
C3_OtherFailureAbortsFlush ==
    /\ last_outcome = "err" => pc = "error"
    /\ ~backoff_on_error

\* C4: a run that produced vectors ends either cleanly with every vector of
\* the window upserted and the checkpoint end_idx - 1 saved, or with an
\* exception and the stored checkpoint as it was when the run started.
C4_CleanOrIntact ==
    /\ (pc = "done" /\ produced # {}) =>
          /\ WindowVectors \subseteq upserted
          /\ saved # <<>>
          /\ s3_checkpoint = save_checkpoint(end_idx - 1)
    /\ pc = "error" => s3_checkpoint = ckpt_at_start

C6_SaveExactlyOnce ==
    (pc = "done" /\ ~step_failed /\ produced # {}) =>
        (save_calls = 1 /\ saved = <<end_idx - 1>>)

\* C7: repeated runs with the same positive DRY_RUN_LIMIT, from an empty
\* checkpoint store and with no failing call, eventually process every
\* document index (stated here for documents of one paragraph chunk each).
C7_EveryDocEventuallyProcessed ==
    (\A i \in 1..Len(records) : records[i] = 1) =>
        <>(processed_ever = 0..(Len(records) - 1))

\* C8: of two consecutive successful runs, the later one starts with the
\* document right after the last document of the earlier one.
C8_ContiguousWindows ==
    (/\ prev_ok /\ prev_last >= 0
     /\ RunSucceeded /\ start_idx = CkptValueAtStart /\ first_doc >= 0) =>
        first_doc = prev_last + 1

\* C9: the stored last_doc_idx never decreases, whatever the limits, the
\* documents and the outcomes of the external calls.
C9_CheckpointMonotone ==
    [][(s3_checkpoint # <<>> /\ s3_checkpoint' # <<>>) =>
            s3_checkpoint'[1] >= s3_checkpoint[1]]_vars

\* C10: a flush whose first k attempts are answered 429 and whose next attempt
\* succeeds makes exactly k + 1 upsert calls and succeeds; a 429 never ends a
\* flush before its 5th call, and no flush makes more than 5 upsert calls.
C10_RetryCount ==
    /\ upsert_calls <= 5
    /\ (flush_result = "ok" /\ only_429) => upsert_calls = attempt + 1
    /\ flush_result \in {"dropped", "exhausted"} => upsert_calls = 5
    /\ flush_result = "aborted" => last_outcome # "rate"

C10_Witness ==
    /\ flush_result = "ok" /\ only_429 /\ attempt = 2 /\ upsert_calls = 3
    /\ flush_log = <<[kind |-> "mid", size |-> BATCH_SIZE]>>

\* ---------------------------------------------------------------------------
\* vocabulary of the chunker claims
RECURSIVE SumLen(_)
SumLen(toks) == IF toks = <<>> THEN 0 ELSE Len(Head(toks)) + SumLen(Tail(toks))

\* ch holds exactly the tokens toks, separated by single characters
SingleSpaced(ch, toks) ==
    /\ simple_tokenize(ch) = toks
    /\ Len(ch) = SumLen(toks) + Len(toks) - 1

WhitespaceOnly(t) == \A j \in 1..Len(t) : IsSpace(t[j])

Tokens1000 == [k \in 1..1000 |-> k]

C12_ExactWindows ==
    /\ cpc = "returned" =>
         LET N == Len(tokens)
             W == chunk_size
             step == chunk_size - overlap
             n == (N + step - 1) \div step
         IN /\ Len(chunks) = n
            /\ \A k \in 0..(n - 1) :
                  chunks[k + 1] = Join(SubSeq(tokens, k * step + 1, Min(k * step + W, N)))
            /\ level = "section"
                  => Flatten([k \in 1..n |-> simple_tokenize(chunks[k])]) = tokens
            /\ \A k \in 1..(n - 1) :
                  (Len(simple_tokenize(chunks[k])) = W /\ Len(simple_tokenize(chunks[k + 1])) = W)
                    => /\ SubSeq(simple_tokenize(chunks[k]), W - overlap + 1, W)
                            = SubSeq(simple_tokenize(chunks[k + 1]), 1, overlap)
                       /\ Cardinality(Range(simple_tokenize(chunks[k]))
                                        \cap Range(simple_tokenize(chunks[k + 1]))) = overlap
    /\ LET w == chunk_windows(Tokens1000, 0, DefaultParagraphTokens,
                              Overlap("paragraph", DefaultParagraphTokens, DefaultOverlap))
       IN /\ Len(w) = 10
          /\ w[10] = SubSeq(Tokens1000, 928, 1000)
          /\ Len(w[10]) = 73

\* paragraph chunks with overlap: two full windows and a shorter last one
C12_Witness ==
    /\ cpc = "returned" /\ level = "paragraph" /\ overlap >= 1
    /\ Len(chunks) >= 3
    /\ Len(simple_tokenize(chunks[1])) = chunk_size
    /\ Len(simple_tokenize(chunks[2])) = chunk_size
    /\ Len(simple_tokenize(chunks[Len(chunks)])) < chunk_size

\* ---------------------------------------------------------------------------
\* C13: chunk_text returns no chunk for an empty or whitespace-only text, at
\* both levels, and every chunk it returns is non-empty and holds at least
\* one and at most chunk_size tokens.
C13_ChunksWellFormed ==
    /\ (cpc = "returned" /\ WhitespaceOnly(text)) => chunks = <<>>
    /\ \A k \in 1..Len(chunks) :
          /\ chunks[k] # <<>>
          /\ Len(simple_tokenize(chunks[k])) >= 1
          /\ Len(simple_tokenize(chunks[k])) <= chunk_size

\* a text of whitespace only has been chunked
C13_Witness ==
    /\ cpc = "returned" /\ text # <<>> /\ WhitespaceOnly(text) /\ chunks = <<>>

\* ---------------------------------------------------------------------------
\* C15: whenever the embedding service fails (exception, quota error,
\* malformed response), get_embedding returns EMBEDDING_DIMENSION zeros; it
\* never raises.
C15_ZeroVectorOnFailure ==
    /\ epc # "raised"
    /\ (epc = "returned" /\ service # "ok")
          => /\ Len(embedding) = EMBEDDING_DIMENSION
             /\ \A k \in 1..Len(embedding) : embedding[k] = 0

\* the second chunk of a text was embedded and the response was malformed
C15_Witness ==
    /\ epc = "returned" /\ service = "malformed" /\ embedded = 2
    /\ Len(embedding) = EMBEDDING_DIMENSION

\* ---------------------------------------------------------------------------
\* C16: load_checkpoint returns the last_doc_idx written by the most recent
\* successful save_checkpoint, and 0 when no checkpoint object exists or it
\* cannot be read: once the run has saved, a read gives the value just saved;
\* a run starts at the value stored when it began, or at 0.
C16_CheckpointRoundTrip ==
    /\ saved # <<>> => load_checkpoint(TRUE) = saved[Len(saved)]
    /\ pc # "idle" => start_idx \in {CkptValueAtStart, 0}
    /\ (pc # "idle" /\ ckpt_at_start = <<>>) => start_idx = 0

\* a run that resumed from a stored checkpoint has saved its own
C16_Witness ==
    /\ pc = "done"
    /\ ckpt_at_start # <<>> /\ start_idx = ckpt_at_start[1] /\ start_idx > 0
    /\ saved # <<>> /\ s3_checkpoint = <<saved[Len(saved)]>>

\* ---------------------------------------------------------------------------
\* C17: with end_idx = start_idx + DRY_RUN_LIMIT for a positive limit, a run
\* that leaves the document loop has processed exactly the existing documents
\* of [start_idx, end_idx), every existing document from start_idx when the
\* limit is 0, in increasing order, and never more than DRY_RUN_LIMIT
\* documents when that is positive.
C17_WindowProcessed ==
    /\ (pc \in {"doc", "para", "mid", "final", "done"} /\ DRY_RUN_LIMIT > 0)
          => end_idx = start_idx + DRY_RUN_LIMIT
    /\ \A j \in 1..Len(run_docs) : run_docs[j] = start_idx + j - 1
    /\ Range(run_docs) \subseteq WindowDocs
    /\ DRY_RUN_LIMIT > 0 => Len(run_docs) <= DRY_RUN_LIMIT
    /\ pc \in {"final", "done"} => Range(run_docs) = WindowDocs

\* a run resumed at document 1 with limit 1 has processed that document only
C17_Witness ==
    /\ pc = "done" /\ DRY_RUN_LIMIT = 1 /\ start_idx = 1
    /\ Len(records) = 2 /\ run_docs = <<1>>

\* ---------------------------------------------------------------------------
\* C18: when a run aborts with an exception nothing catches (while loading, on
\* a document that cannot be chunked, in a mid-stream flush), the stored
\* checkpoint is the one the run found at its start.
C18_AbortKeepsCheckpoint == pc = "error" => s3_checkpoint = ckpt_at_start

\* a run that found a checkpoint aborts in a mid-stream flush whose upsert went through
C18_Witness ==
    /\ pc = "error" /\ ckpt_at_start # <<>>
    /\ flush_result = "aborted" /\ upserted # {} /\ s3_checkpoint = ckpt_at_start

\* ---------------------------------------------------------------------------
\* C19: every manifest write creates its own object: no manifest write of a
\* flush replaces the manifest object an earlier flush wrote, however little
\* time lies between the two flushes.
C19_ManifestNeverOverwritten == ~manifest_overwritten

\* ---------------------------------------------------------------------------
\* C20: the manifest logger is invoked exactly once for a flush that
\* succeeded, with the vectors of that flush, and only for vectors whose
\* upsert succeeded; the same when a later step of the final flush fails.
C20_ManifestOncePerFlush ==
    /\ flush_result = "ok" => (manifest_invoked /\ ~manifest_reinvoked)
    /\ (manifest_invoked /\ pc \in {"mid", "final"}) => manifest_last = Range(batch)
    /\ manifest_last \subseteq upserted

\* ---------------------------------------------------------------------------
\* C21: an embedding call that the service answers with a rate limit is
\* retried (with backoff, up to 5 attempts, as a rate-limited upsert is): a
\* call answered that way does not return with the zero vector.
C21_EmbeddingRateLimitRetried ==
    ~(service = "quota" /\ epc = "returned"
        /\ embedding = [k \in 1..EMBEDDING_DIMENSION |-> 0])

\* ---------------------------------------------------------------------------
\* C22: a failing save_checkpoint does not abort the run: the run stays in its
\* final flush or ends normally, and when no save of the run went through,
\* the stored checkpoint is the one found at run start.
C22_SaveFailureNotFatal ==
    /\ save_calls > Len(saved) => pc \in {"final", "done"}
    /\ (pc = "done" /\ save_calls > 0 /\ saved = <<>>) => s3_checkpoint = ckpt_at_start

\* the checkpoint store was unavailable in every attempt of a run that had
\* found a checkpoint
C22_Witness ==
    /\ pc = "done" /\ save_calls = FINAL_ATTEMPTS /\ saved = <<>>
    /\ ckpt_at_start # <<>> /\ s3_checkpoint = ckpt_at_start

\* ---------------------------------------------------------------------------
\* C23: the batch never holds more than BATCH_SIZE vectors, and once the
\* flush decision after an append is taken and its flush is over, whatever
\* its outcome, it holds fewer.
C23_BatchBounded ==
    /\ Len(batch) <= BATCH_SIZE
    /\ pc \in {"doc", "para", "final", "done"} => Len(batch) < BATCH_SIZE

\* a flush was given up after five rate limits and the loop went on
C23_Witness ==
    /\ pc = "para" /\ flush_result = "dropped" /\ batch = <<>> /\ produced # {}

\* ---------------------------------------------------------------------------
\* C26: every checkpoint a run writes names a document that exists and that
\* the run processed: 0 <= last_doc_idx <= len(records) - 1.
C26_CheckpointNamesProcessedDoc ==
    \A k \in 1..Len(saved) :
        /\ saved[k] >= 0
        /\ saved[k] <= Len(records) - 1
        /\ saved[k] \in Range(run_docs)

\* ---------------------------------------------------------------------------
\* C27: a manifest write that raises after a successful upsert changes nothing
\* else: the run is not aborted by it, and the batch whose upsert went
\* through is not sent to the index again.
C27_ManifestFailureHarmless ==
    /\ ~(pc = "error" /\ flush_result = "aborted" /\ last_outcome = "ok" /\ manifest_invoked)
    /\ (pc = "final" /\ manifest_invoked /\ total_upserted = 0)
          => ~(Range(batch) \subseteq upserted)


\* ---------------------------------------------------------------------------
\* C24: chunk_text terminates for every overlap fraction of 0..1: each
\* iteration of the loop that emits a chunk moves the window start i strictly
\* forward, so that i reaches len(tokens) after finitely many iterations.
C24_WindowStartAdvances ==
    [][(chunks' # chunks) => chunk_i' > chunk_i]_vars

\* ---------------------------------------------------------------------------
\* C29: the two passes over a document (sections, then the paragraphs of each
\* section) lose no token of the text, and the paragraph chunks come in the
\* order of the document: every token occurs in some paragraph chunk, and
\* each chunk begins later in the text than the chunk before it. (Token k of
\* a drawn text has k letters, so its length is its position.)
C29_TwoPassCovers ==
    doc_paras # <<>> =>
        LET ps == doc_paras[1]
            toks(k) == simple_tokenize(ps[k])
        IN  /\ \A j \in 1..Len(tokens) : \E k \in 1..Len(ps) : tokens[j] \in Range(toks(k))
            /\ \A k \in 1..Len(ps) : toks(k) # <<>>
            /\ \A k \in 1..(Len(ps) - 1) : Len(toks(k)[1]) < Len(toks(k + 1)[1])
            /\ Len(tokens) > 0 => toks(1)[1] = tokens[1]

\* a text of several sections, each of several overlapping paragraphs
C29_Witness ==
    /\ doc_paras # <<>>
    /\ Len(chunks) >= 2
    /\ Len(doc_paras[1]) > Len(chunks) + 1
    /\ Overlap("paragraph", CHUNK_PARAGRAPH_TOKENS, CHUNK_PARAGRAPH_OVERLAP) > 0

\* ---------------------------------------------------------------------------
\* C28: with a collision-free hash, two different (doc_id, chunk_text) pairs
\* get different chunk ids.
C28_DistinctPairsDistinctIds ==
    (idcall.ids # <<>> /\ idcall.a # idcall.b) => idcall.ids[1] # idcall.ids[2]

C30_GraphNeverRaises ==
    /\ graph.gpc # "raised"
    /\ \A b \in 1..Len(graph.calls) : graph.calls[b] <= MAX_RETRIES + 1
    /\ \A b \in 1..Len(graph.outcome) :
          graph.outcome[b] = "skipped_transient" => graph.calls[b] = MAX_RETRIES + 1
    /\ graph.gpc = "try" => graph.last \in {"none", "transient"}
    /\ graph.gpc = "returned" =>
          /\ Len(graph.calls) = num_batches(graph.total)
          /\ Len(graph.outcome) = num_batches(graph.total)
          /\ \A b \in 1..Len(graph.calls) : graph.calls[b] >= 1

\* the first batch was given up after MAX_RETRIES + 1 transient failures, the
\* second was still attempted, once, and the function returned
C30_Witness ==
    /\ graph.gpc = "returned"
    /\ Len(graph.outcome) >= 2
    /\ graph.outcome[1] = "skipped_transient" /\ graph.calls[1] = MAX_RETRIES + 1
    /\ graph.outcome[2] \in {"skipped_other", "ok"} /\ graph.calls[2] = 1

====
